---- MODULE Spec2Model ----
(***************************************************************************)
(* Green-thread runtime of src/main.rs: a fixed pool of MAX_THREADS units, *)
(* a cooperative round-robin scheduler (t_yield / t_return / run / spawn), *)
(* the completion trampoline (guard) and the context switch.               *)
(*                                                                         *)
(* The machine is modelled as one execution stream: pc is the instruction  *)
(* the CPU is at, rsp the stack it runs on.  Every unit has a stack of     *)
(* return addresses; switch saves rsp into one unit's context and loads it *)
(* from another's, and its retq pops the resume address from the new stack.*)
(* Stack 0 stands for the process stack the bootstrap unit runs on.        *)
(*                                                                         *)
(* The callee-saved registers of ThreadContext other than rsp do not       *)
(* decide where control goes and are not part of this state.  A dereference*)
(* of RUNTIME while it is 0 is undefined behaviour: the execution ends in  *)
(* "segv" or "ub" and nothing is claimed about what follows.               *)
(***************************************************************************)
EXTENDS Integers, Sequences, FiniteSets, TLC

\* ---- program constants ----
MAX_THREADS == 4
\* the address of the Runtime object, as stored in the static RUNTIME
RtAddr == 1
\* iterations of the two closures of main()
Closure1Iters == 10
Closure2Iters == 15

\* ---- bounds of the model ----
\* most yield_thread calls an entry function of the general embedding makes
MaxYields == 1
\* most calls of spawn / init / yield_thread the embedding code makes
MaxSpawns == 4
MaxInits == 2
MaxMainYields == 1
\* largest value of MAX_THREADS the construction is checked for
MaxPoolSize == 12

VARIABLES
    threads,    \* Runtime.threads: index -> [id, state]
    current,    \* Runtime.current
    RUNTIME,    \* static mut RUNTIME: 0 or the Runtime's address
    ctx,        \* Thread.ctx of every unit: the saved stack pointer
    stack,      \* per unit: the return addresses on its stack, bottom first
    rsp,        \* the CPU's stack pointer: [stk, top]
    pc,         \* the instruction the execution stream is at
    pos,        \* t_yield's local pos
    old_pos,    \* t_yield's local old_pos
    ret,        \* return value of the last t_yield
    entry,      \* per stack: the entry function planted by spawn, [id, n]
    counter,    \* per stack: the entry function's loop variable i
    out,        \* standard output, one element per println
    calls,      \* calls made so far by the embedding code (main)
    begun,      \* history: ids of entry functions in the order they started
    done,       \* history: ids of entry functions in the order they returned
    n_threads,  \* the value of MAX_THREADS Runtime::new is built with
    available_threads,  \* Runtime::new's local available_threads
    cpu,        \* CPU side of switch: r15..rbp and the cells %gs:0x08, %gs:0x16
    saved,      \* Thread.ctx of every unit: the fields other than rsp
    waited      \* history: per unit, the switches made since it became Ready

vars == <<threads, current, RUNTIME, ctx, stack, rsp, pc, pos, old_pos, ret,
          entry, counter, out, calls, begun, done,
          n_threads, available_threads, cpu, saved, waited>>

\* the locals of Runtime::new, and the register side of the contexts
newVars == <<n_threads, available_threads>>
regVars == <<cpu, saved>>

Slots == 0 .. (MAX_THREADS - 1)
States == {"Available", "Running", "Ready"}
NoPos == -1
NoStack == -1
\* ThreadContext::default(): rsp = 0
NullCtx == [stk |-> NoStack, top |-> 0]
NoEntry == [id |-> 0, n |-> 0]
\* ThreadContext::default(): every field other than rsp is 0 as well
DefaultRegs ==
    [r15 |-> 0, r14 |-> 0, r13 |-> 0, r12 |-> 0, rbx |-> 0, rbp |-> 0,
     tib_lo |-> 0, tib_hi |-> 0]
\* the registers and the two %gs cells as the process starts: values that
\* differ from each other and from the zeros of a default context
BootCpu ==
    [r15 |-> 15, r14 |-> 14, r13 |-> 13, r12 |-> 12, rbx |-> 11, rbp |-> 10,
     gs08 |-> 8, gs16 |-> 16]

\* ---- Thread::new and Runtime::new ----
\* mutant: every unit gets the id of the base thread
ThreadNewIdZero(i) == [id |-> 0, state |-> "Available"]

ThreadNew(i) == [id |-> i, state |-> "Available"]

\* mutant: the base thread is built by Thread::new like the others
RuntimeNewAllAvailable == [i \in Slots |-> ThreadNew(i)]

RuntimeNewThreads ==
    [i \in Slots |-> IF i = 0 THEN [id |-> 0, state |-> "Running"] ELSE ThreadNew(i)]

\* ---- the call stack ----
\* call: push the return address on the stack the CPU runs on
Pushed(l) == [stack EXCEPT ![rsp.stk] = Append(SubSeq(@, 1, rsp.top), l)]
RspPushed == [rsp EXCEPT !.top = @ + 1]

\* retq through stack pointer sp on stacks st: the address popped, or the
\* outcome of popping where no return address was ever written
RetTarget(st, sp) ==
    IF sp.stk = NoStack THEN "segv"
    ELSE IF sp.top = 0 THEN "ub"
    ELSE st[sp.stk][sp.top]
RetRsp(sp) == IF sp.stk = NoStack \/ sp.top = 0 THEN sp ELSE [sp EXCEPT !.top = @ - 1]
RetStack(st, sp) ==
    IF sp.stk = NoStack \/ sp.top = 0 THEN st
    ELSE [st EXCEPT ![sp.stk] = SubSeq(@, 1, sp.top - 1)]

\* ---- state after construction (let mut runtime = Runtime::new()) ----
Init ==
    /\ threads = RuntimeNewThreads
    /\ current = 0
    /\ RUNTIME = 0
    /\ ctx = [i \in Slots |-> NullCtx]
    /\ stack = [i \in Slots |-> << >>]
    /\ rsp = [stk |-> 0, top |-> 0]
    /\ pc = "main"
    /\ pos = 0
    /\ old_pos = 0
    /\ ret = FALSE
    /\ entry = [i \in Slots |-> NoEntry]
    /\ counter = [i \in Slots |-> 0]
    /\ out = << >>
    /\ calls = [init |-> 0, spawn |-> 0, yield_thread |-> 0, run |-> 0]
    /\ begun = << >>
    /\ done = << >>
    /\ n_threads = MAX_THREADS
    /\ available_threads = << >>
    /\ cpu = BootCpu
    /\ saved = [i \in Slots |-> DefaultRegs]
    /\ waited = [i \in Slots |-> 0]


\* ---- pure parts of the scheduler ----
\* spawn: .iter_mut().find(|t| t.state == State::Available)
\* mutant: the last Available slot is taken instead of the first
LastAvailable(th) ==
    IF \E i \in Slots : th[i].state = "Available"
    THEN CHOOSE i \in Slots :
            /\ th[i].state = "Available"
            /\ \A j \in Slots : th[j].state = "Available" => i >= j
    ELSE NoPos

FirstAvailable(th) ==
    IF \E i \in Slots : th[i].state = "Available"
    THEN CHOOSE i \in Slots :
            /\ th[i].state = "Available"
            /\ \A j \in Slots : th[j].state = "Available" => i <= j
    ELSE NoPos

\* spawn: available.state = State::Ready
SpawnReady(th, a) == [th EXCEPT ![a].state = "Ready"]

\* mutant: t_return marks the unit Ready instead of Available
RetireAsReady(th, cur) == [th EXCEPT ![cur].state = "Ready"]

\* t_return: self.threads[self.current].state = State::Available
Retire(th, cur) == [th EXCEPT ![cur].state = "Available"]

\* mutant: the scan goes down the pool instead of up
RECURSIVE t_yield_loop_down(_, _, _)
t_yield_loop_down(th, cur, p) ==
    IF th[p].state = "Ready" THEN p
    ELSE LET q == IF p = 0 THEN MAX_THREADS - 1 ELSE p - 1
         IN  IF q = cur THEN NoPos ELSE t_yield_loop_down(th, cur, q)

\* mutant: a scan that comes back to current selects current
RECURSIVE t_yield_loop_self(_, _, _)
t_yield_loop_self(th, cur, p) ==
    IF th[p].state = "Ready" THEN p
    ELSE LET q == IF p + 1 = MAX_THREADS THEN 0 ELSE p + 1
         IN  IF q = cur THEN cur ELSE t_yield_loop_self(th, cur, q)

\* mutant: the wrap test is off by one, the last slot is never scanned
RECURSIVE t_yield_loop_short(_, _, _)
t_yield_loop_short(th, cur, p) ==
    IF th[p].state = "Ready" THEN p
    ELSE LET q == IF p + 1 >= MAX_THREADS - 1 THEN 0 ELSE p + 1
         IN  IF q = cur THEN NoPos ELSE t_yield_loop_short(th, cur, q)

\* mutant: a retiring unit is marked Ready like a yielding one
MarkOldAlways(th, cur) == [th EXCEPT ![cur].state = "Ready"]

\* t_yield: the scanning loop, entered with pos = p
RECURSIVE t_yield_loop(_, _, _)
t_yield_loop(th, cur, p) ==
    IF th[p].state = "Ready" THEN p
    ELSE LET q == IF p + 1 = MAX_THREADS THEN 0 ELSE p + 1
         IN  IF q = cur THEN NoPos ELSE t_yield_loop(th, cur, q)

\* t_yield: let mut pos = self.current; while ... { ... }
t_yield_find(th, cur) == t_yield_loop(th, cur, cur)

\* mutant: the old unit is left Running when a candidate is found
MarkOldForgotten(th, cur) == th

\* t_yield: if state != Available { state = Ready }
MarkOld(th, cur) ==
    IF th[cur].state # "Available" THEN [th EXCEPT ![cur].state = "Ready"] ELSE th

\* mutant: the candidate is not marked Running
MarkRunningForgotten(th, p) == th

\* t_yield: self.threads[pos].state = State::Running
MarkRunning(th, p) == [th EXCEPT ![p].state = "Running"]

\* mutant: the two addresses are written in the other order
PrimedStackSwapped == <<"f_start", "guard">>

\* the stack spawn primes: guard's address at size-8, f's at size-16
PrimedStack == <<"guard", "f_start">>

\* mutant: spawn leaves the context of the slot as it was
PrimedCtxStale(a) == ctx[a]

\* spawn: available.ctx.rsp = the address of the slot at size-16
PrimedCtx(a) == [stk |-> a, top |-> Len(PrimedStack)]

\* outcomes of dereferencing RUNTIME while it is 0 (undefined behaviour):
\* the access faults, or the program goes on in an unspecified way
NullDeref == {"segv", "ub"}

\* the process has ended (exit, panic, fault) or left defined behaviour
Halted == {"exit0", "panic", "segv", "ub"}

\* ---- Runtime::init ----
init ==
    /\ pc = "main"
    /\ calls.init < MaxInits
    /\ RUNTIME' = RtAddr
    /\ calls' = [calls EXCEPT !.init = @ + 1]
    /\ UNCHANGED <<threads, current, ctx, stack, rsp, pc, pos, old_pos, ret,
                   entry, counter, out, begun, done>>
    /\ UNCHANGED <<newVars, regVars, waited>>

\* ---- Runtime::spawn ----
spawn(f) ==
    /\ pc = "main"
    /\ calls.spawn < MaxSpawns
    /\ calls' = [calls EXCEPT !.spawn = @ + 1]
    /\ LET a == FirstAvailable(threads)
       IN  IF a = NoPos
           THEN \* .expect("no available thread.") panics
                /\ pc' = "panic"
                /\ UNCHANGED <<threads, ctx, stack, entry, waited>>
           ELSE /\ stack' = [stack EXCEPT ![a] = PrimedStack]
                /\ entry' = [entry EXCEPT ![a] = f]
                /\ ctx' = [ctx EXCEPT ![a] = PrimedCtx(a)]
                /\ threads' = SpawnReady(threads, a)
                /\ waited' = [waited EXCEPT ![a] = 0]
                /\ pc' = "main"
    /\ UNCHANGED <<current, RUNTIME, rsp, pos, old_pos, ret, counter, out, begun, done>>
    /\ UNCHANGED <<newVars, regVars>>

\* ---- Runtime::run ----
run ==
    /\ pc = "main"
    /\ calls.run = 0
    /\ calls' = [calls EXCEPT !.run = @ + 1]
    /\ pc' = "run"
    /\ UNCHANGED <<threads, current, RUNTIME, ctx, stack, rsp, pos, old_pos, ret,
                   entry, counter, out, begun, done>>
    /\ UNCHANGED <<newVars, regVars, waited>>

\* while self.t_yield(): the call
run_while ==
    /\ pc = "run"
    /\ stack' = Pushed("run_test")
    /\ rsp' = RspPushed
    /\ pc' = "t_yield"
    /\ UNCHANGED <<threads, current, RUNTIME, ctx, pos, old_pos, ret,
                   entry, counter, out, calls, begun, done>>
    /\ UNCHANGED <<newVars, regVars, waited>>

\* while self.t_yield() {}: the test, and std::process::exit(0)
run_test ==
    /\ pc = "run_test"
    /\ pc' = IF ret THEN "run" ELSE "exit0"
    /\ UNCHANGED <<threads, current, RUNTIME, ctx, stack, rsp, pos, old_pos, ret,
                   entry, counter, out, calls, begun, done>>
    /\ UNCHANGED <<newVars, regVars, waited>>

\* ---- Runtime::t_return ----
t_return ==
    /\ pc = "t_return"
    /\ IF current # 0
       THEN /\ threads' = Retire(threads, current)
            /\ stack' = Pushed("t_return_ret")
            /\ rsp' = RspPushed
            /\ pc' = "t_yield"
       ELSE /\ pc' = RetTarget(stack, rsp)
            /\ rsp' = RetRsp(rsp)
            /\ stack' = RetStack(stack, rsp)
            /\ UNCHANGED threads
    /\ UNCHANGED <<current, RUNTIME, ctx, pos, old_pos, ret,
                   entry, counter, out, calls, begun, done>>
    /\ UNCHANGED <<newVars, regVars, waited>>

\* ---- Runtime::t_yield ----
\* the scan; return false when it comes back to current
t_yield_scan ==
    /\ pc = "t_yield"
    /\ LET p == t_yield_find(threads, current)
       IN  IF p = NoPos
           THEN /\ ret' = FALSE
                /\ pc' = RetTarget(stack, rsp)
                /\ rsp' = RetRsp(rsp)
                /\ stack' = RetStack(stack, rsp)
                /\ UNCHANGED pos
           ELSE /\ pos' = p
                /\ pc' = "ty_mark"
                /\ UNCHANGED <<ret, rsp, stack>>
    /\ UNCHANGED <<threads, current, RUNTIME, ctx, old_pos,
                   entry, counter, out, calls, begun, done>>
    /\ UNCHANGED <<newVars, regVars, waited>>

\* history: a candidate was found, so every Ready unit has seen one more
\* switch; the count of the unit that now stops running starts again
Waited(w, th, cur) ==
    [i \in Slots |->
        IF i = cur THEN 0
        ELSE IF th[i].state = "Ready" THEN w[i] + 1 ELSE w[i]]

t_yield_mark ==
    /\ pc = "ty_mark"
    /\ threads' = MarkOld(threads, current)
    /\ waited' = Waited(waited, threads, current)
    /\ pc' = "ty_run"
    /\ UNCHANGED <<current, RUNTIME, ctx, stack, rsp, pos, old_pos, ret,
                   entry, counter, out, calls, begun, done>>
    /\ UNCHANGED <<newVars, regVars>>

t_yield_run ==
    /\ pc = "ty_run"
    /\ threads' = MarkRunning(threads, pos)
    /\ pc' = "ty_cur"
    /\ UNCHANGED <<current, RUNTIME, ctx, stack, rsp, pos, old_pos, ret,
                   entry, counter, out, calls, begun, done>>
    /\ UNCHANGED <<newVars, regVars, waited>>

t_yield_cur ==
    /\ pc = "ty_cur"
    /\ old_pos' = current
    /\ current' = pos
    /\ pc' = "switch"
    /\ UNCHANGED <<threads, RUNTIME, ctx, stack, rsp, pos, ret,
                   entry, counter, out, calls, begun, done>>
    /\ UNCHANGED <<newVars, regVars, waited>>

\* ---- switch(&mut threads[old_pos].ctx, &threads[pos].ctx) ----
\* the call pushes the address after it; rsp is saved into old's context and
\* loaded from new's; retq resumes at the address on top of the new stack
SavedCtx(c, old, sp) == [c EXCEPT ![old] = sp]

\* movq %r15, 0x08(%rdi) ... movq %rbp, 0x30(%rdi); %gs:0x08 -> 0x38(%rdi),
\* %gs:0x16 -> 0x40(%rdi): what the save half writes into the old context
SwitchSave(c) ==
    [r15 |-> c.r15, r14 |-> c.r14, r13 |-> c.r13, r12 |-> c.r12,
     rbx |-> c.rbx, rbp |-> c.rbp, tib_lo |-> c.gs08, tib_hi |-> c.gs16]

\* movq 0x08(%rsi), %r15 ... movq 0x30(%rsi), %rbp from the new context;
\* 0x38(%rdi) -> %gs:0x08 and 0x40(%rdi) -> %gs:0x16 from the old context
SwitchLoad(old, new) ==
    [r15 |-> new.r15, r14 |-> new.r14, r13 |-> new.r13, r12 |-> new.r12,
     rbx |-> new.rbx, rbp |-> new.rbp, gs08 |-> old.tib_lo, gs16 |-> old.tib_hi]

switch ==
    /\ pc = "switch"
    /\ LET st == Pushed("ty_true")
           c  == SavedCtx(ctx, old_pos, RspPushed)
           sp == c[pos]
           sv == [saved EXCEPT ![old_pos] = SwitchSave(cpu)]
       IN  /\ ctx' = c
           /\ saved' = sv
           /\ cpu' = SwitchLoad(sv[old_pos], sv[pos])
           /\ pc' = RetTarget(st, sp)
           /\ rsp' = RetRsp(sp)
           /\ stack' = RetStack(st, sp)
    /\ UNCHANGED <<threads, current, RUNTIME, pos, old_pos, ret,
                   entry, counter, out, calls, begun, done>>
    /\ UNCHANGED <<newVars, waited>>

\* after the switch has come back to this unit: return true
t_yield_true ==
    /\ pc = "ty_true"
    /\ ret' = TRUE
    /\ pc' = RetTarget(stack, rsp)
    /\ rsp' = RetRsp(rsp)
    /\ stack' = RetStack(stack, rsp)
    /\ UNCHANGED <<threads, current, RUNTIME, ctx, pos, old_pos,
                   entry, counter, out, calls, begun, done>>
    /\ UNCHANGED <<newVars, regVars, waited>>

\* ---- yield_thread ----
yield_thread ==
    /\ pc = "yield_thread"
    /\ IF RUNTIME = 0
       THEN /\ pc' \in NullDeref
            /\ UNCHANGED <<stack, rsp>>
       ELSE /\ stack' = Pushed("yield_thread_ret")
            /\ rsp' = RspPushed
            /\ pc' = "t_yield"
    /\ UNCHANGED <<threads, current, RUNTIME, ctx, pos, old_pos, ret,
                   entry, counter, out, calls, begun, done>>
    /\ UNCHANGED <<newVars, regVars, waited>>

\* the end of yield_thread, t_return and guard: return to the caller
fn_ret ==
    /\ pc \in {"yield_thread_ret", "t_return_ret", "guard_ret"}
    /\ pc' = RetTarget(stack, rsp)
    /\ rsp' = RetRsp(rsp)
    /\ stack' = RetStack(stack, rsp)
    /\ UNCHANGED <<threads, current, RUNTIME, ctx, pos, old_pos, ret,
                   entry, counter, out, calls, begun, done>>
    /\ UNCHANGED <<newVars, regVars, waited>>

\* ---- guard ----
guard ==
    /\ pc = "guard"
    /\ IF RUNTIME = 0
       THEN /\ pc' \in NullDeref
            /\ UNCHANGED <<stack, rsp, out>>
       ELSE /\ out' = Append(out, <<"finished", threads[current].id>>)
            /\ stack' = Pushed("guard_ret")
            /\ rsp' = RspPushed
            /\ pc' = "t_return"
    /\ UNCHANGED <<threads, current, RUNTIME, ctx, pos, old_pos, ret,
                   entry, counter, calls, begun, done>>
    /\ UNCHANGED <<newVars, regVars, waited>>

\* ---- an entry function: the closures of main() ----
\* println!("THREAD {} STARTING"); for i in 0..n
closure_start ==
    /\ pc = "f_start"
    /\ out' = Append(out, <<"starting", entry[rsp.stk].id>>)
    /\ begun' = Append(begun, entry[rsp.stk].id)
    /\ counter' = [counter EXCEPT ![rsp.stk] = 0]
    /\ pc' = "f_loop"
    /\ UNCHANGED <<threads, current, RUNTIME, ctx, stack, rsp, pos, old_pos, ret,
                   entry, calls, done>>
    /\ UNCHANGED <<newVars, regVars, waited>>

\* the loop test; println!("thread: {} counter: {}"); yield_thread(); or return
closure_loop ==
    /\ pc = "f_loop"
    /\ LET u == rsp.stk
       IN  IF counter[u] < entry[u].n
           THEN /\ out' = Append(out, <<"counter", entry[u].id, counter[u]>>)
                /\ stack' = Pushed("f_next")
                /\ rsp' = RspPushed
                /\ pc' = "yield_thread"
                /\ UNCHANGED done
           ELSE /\ done' = Append(done, entry[u].id)
                /\ pc' = RetTarget(stack, rsp)
                /\ rsp' = RetRsp(rsp)
                /\ stack' = RetStack(stack, rsp)
                /\ UNCHANGED out
    /\ UNCHANGED <<threads, current, RUNTIME, ctx, pos, old_pos, ret,
                   entry, counter, calls, begun>>
    /\ UNCHANGED <<newVars, regVars, waited>>

\* i += 1
closure_next ==
    /\ pc = "f_next"
    /\ counter' = [counter EXCEPT ![rsp.stk] = @ + 1]
    /\ pc' = "f_loop"
    /\ UNCHANGED <<threads, current, RUNTIME, ctx, stack, rsp, pos, old_pos, ret,
                   entry, out, calls, begun, done>>
    /\ UNCHANGED <<newVars, regVars, waited>>

\* ---- the embedding code ----
\* a call of yield_thread() by the code that owns the Runtime
main_yield ==
    /\ pc = "main"
    /\ calls.yield_thread < MaxMainYields
    /\ calls' = [calls EXCEPT !.yield_thread = @ + 1]
    /\ stack' = Pushed("main")
    /\ rsp' = RspPushed
    /\ pc' = "yield_thread"
    /\ UNCHANGED <<threads, current, RUNTIME, ctx, pos, old_pos, ret,
                   entry, counter, out, begun, done>>
    /\ UNCHANGED <<newVars, regVars, waited>>

\* a spawn of an entry function that yields n times, n <= MaxYields
main_spawn == \E n \in 0 .. MaxYields : spawn([id |-> calls.spawn + 1, n |-> n])

Sched ==
    \/ run_while
    \/ run_test
    \/ t_return
    \/ t_yield_scan
    \/ t_yield_mark
    \/ t_yield_run
    \/ t_yield_cur
    \/ switch
    \/ t_yield_true
    \/ yield_thread
    \/ fn_ret
    \/ guard
    \/ closure_start
    \/ closure_loop
    \/ closure_next

Next ==
    \/ init
    \/ main_spawn
    \/ main_yield
    \/ run
    \/ Sched

Spec == Init /\ [][Next]_vars

\* the execution stream never stops by itself
FairSpec == Spec /\ WF_vars(Next)

\* ---- fn main(): init, two spawns, run ----
Closure1 == [id |-> 1, n |-> Closure1Iters]
Closure2 == [id |-> 2, n |-> Closure2Iters]

main_init == calls.init = 0 /\ calls.spawn = 0 /\ init
main_spawn1 == calls.init = 1 /\ calls.spawn = 0 /\ spawn(Closure1)
main_spawn2 == calls.init = 1 /\ calls.spawn = 1 /\ spawn(Closure2)
main_run == calls.init = 1 /\ calls.spawn = 2 /\ run

NextMain ==
    \/ main_init
    \/ main_spawn1
    \/ main_spawn2
    \/ main_run
    \/ Sched

SpecMain == Init /\ [][NextMain]_vars

FairSpecMain == SpecMain /\ WF_vars(NextMain)

TypeOK ==
    /\ threads \in [Slots -> [id : Slots, state : States]]
    /\ current \in Slots
    /\ RUNTIME \in {0, RtAddr}
    /\ pos \in Slots
    /\ old_pos \in Slots
    /\ ret \in BOOLEAN

\* ---- helpers of the properties ----
RunningSet == {i \in Slots : threads[i].state = "Running"}
ReadySet == {i \in Slots : threads[i].state = "Ready"}
Count(seq, x) == Cardinality({k \in 1 .. Len(seq) : seq[k] = x})

\* the return address on top of the stack the CPU runs on
TopOfStack == IF rsp.stk # NoStack /\ rsp.top > 0 THEN stack[rsp.stk][rsp.top] ELSE "none"

\* t_return has written Available (line 85), or t_yield has written Ready
\* (line 103), and t_yield has not yet updated current (line 108)
InUpdateWindow ==
    \/ pc \in {"ty_run", "ty_cur"}
    \/ pc \in {"t_yield", "ty_mark"} /\ TopOfStack = "t_return_ret"

\* C1 (as stated): at every instant, also inside t_return and t_yield, exactly
\* one unit is Running and it is threads[current].
C1_RunningAtEveryInstant ==
    /\ Cardinality(RunningSet) = 1
    /\ threads[current].state = "Running"

\* C1 (amended): at every instant outside the update window of a switch (from
\* the state write of t_return line 85 or t_yield line 103 until current is
\* updated at line 108), exactly one unit is Running and it is threads[current].
C1_RunningOutsideWindow ==
    ~InUpdateWindow =>
        /\ Cardinality(RunningSet) = 1
        /\ threads[current].state = "Running"

\* a spawned unit's entry function runs after a completed switch into it
C1_Witness ==
    /\ pc = "f_loop"
    /\ current # 0
    /\ rsp.stk = current
    /\ RunningSet = {current}
    /\ Len(done) > 0

\* ids of the entry functions spawned so far
Spawned == 1 .. calls.spawn

\* every spawned entry function has started once and returned once
AllRanOnce == \A j \in Spawned : Count(begun, j) = 1 /\ Count(done, j) = 1

\* C2: with the scheduler installed, after N spawns (1 <= N <= capacity-1) of
\* entry functions that return after finitely many yields, a call of run leads
\* to exit(0) with every entry function started once and returned once, and no
\* entry function ever starts or returns twice.
C2_RunCompletesAll ==
    /\ [](\A j \in Spawned : Count(begun, j) <= 1 /\ Count(done, j) <= 1)
    /\ (pc = "run" /\ RUNTIME # 0 /\ calls.spawn \in 1 .. (MAX_THREADS - 1))
          ~> (pc = "exit0" /\ AllRanOnce)

\* run has exited after three spawned units, one of which yielded, completed
C2_Witness ==
    /\ pc = "exit0"
    /\ calls.spawn = MAX_THREADS - 1
    /\ calls.yield_thread = 0
    /\ AllRanOnce
    /\ \E k \in 1 .. Len(out) : out[k][1] = "counter"

\* C3: run exits the process only when no slot is Ready, every slot other than
\* 0 is Available, current is 0 and every spawned entry function has returned.
C3_ExitOnlyWhenAllDone ==
    pc = "exit0" =>
        /\ ReadySet = {}
        /\ \A i \in Slots \ {0} : threads[i].state = "Available"
        /\ current = 0
        /\ \A j \in Spawned : Count(done, j) = 1

\* run has exited after at least two units ran, one of them yielding
C3_Witness ==
    /\ pc = "exit0"
    /\ calls.spawn >= 2
    /\ Len(done) = calls.spawn
    /\ \E k \in 1 .. Len(out) : out[k][1] = "counter"

AvailableSet == {i \in Slots : threads[i].state = "Available"}

\* a step that is a call of spawn / of init by the embedding code
SpawnCall == pc = "main" /\ calls'.spawn = calls.spawn + 1
InitCall == pc = "main" /\ calls'.init = calls.init + 1

\* C4: a spawn into a pool with an Available slot succeeds and uses up one
\* Available slot; a spawn into a pool with none returns to the caller with a
\* capacity error (no crash) and leaves every unit's state and current unchanged.
C4_SpawnCapacityError ==
    [][SpawnCall =>
          IF AvailableSet # {}
          THEN /\ pc' = "main"
               /\ \E a \in AvailableSet :
                     /\ threads'[a].state = "Ready"
                     /\ \A i \in Slots \ {a} : threads'[i] = threads[i]
          ELSE /\ pc' = "main"
               /\ threads' = threads
               /\ current' = current]_vars

\* distance of slot i from slot c in ascending, wrapping index order
Dist(c, i) == (i - c + MAX_THREADS) % MAX_THREADS

\* C5: a unit that goes from Ready to Running is the first Ready unit in the
\* cyclic order current+1, current+2, ..., wrapping to 0 and stopping before
\* current: no other Ready unit comes before it in that order.
C5_RoundRobinSelection ==
    [][\A a \in Slots :
          (threads[a].state = "Ready" /\ threads'[a].state = "Running") =>
              /\ a # current
              /\ \A b \in Slots \ {current} :
                    threads[b].state = "Ready" => Dist(current, a) <= Dist(current, b)]_vars

\* slot 2 yields with slots 0 and 1 both Ready: the scan wrapped and took 0
C5_Witness ==
    /\ pc = "ty_cur"
    /\ current = 2
    /\ pos = 0
    /\ threads[0].state = "Running"
    /\ threads[1].state = "Ready"

\* C6: t_yield entered while no unit other than current is Ready returns false
\* to its caller without a switch and leaves every unit's state, every saved
\* context and current unchanged (so a repeated call does the same).
C6_NoWorkChangesNothing ==
    [][(pc = "t_yield" /\ ReadySet \ {current} = {}) =>
          /\ ret' = FALSE
          /\ pc' = TopOfStack
          /\ rsp'.stk = rsp.stk
          /\ threads' = threads
          /\ current' = current
          /\ ctx' = ctx]_vars

\* yield_thread and then run both found no work in a pool with no spawned unit
C6_Witness ==
    /\ pc = "exit0"
    /\ calls.yield_thread = 1
    /\ calls.spawn = 0
    /\ ret = FALSE
    /\ threads = RuntimeNewThreads
    /\ current = 0

\* C7: t_return is never entered with current = 0, the trampoline is never
\* planted on or run from the bootstrap stack, and slot 0 is never Available.
C7_BootstrapNeverRetired ==
    /\ pc = "t_return" => current # 0
    /\ pc \in {"guard", "t_return", "guard_ret", "t_return_ret"} => rsp.stk # 0
    /\ \A k \in 1 .. Len(stack[0]) : stack[0][k] # "guard"
    /\ threads[0].state # "Available"

\* the trampoline has called t_return for a spawned unit
C7_Witness ==
    /\ pc = "t_return"
    /\ current # 0
    /\ rsp.stk = current
    /\ threads[0].state = "Ready"

\* C8: every change of a unit's state is Available->Ready by spawn,
\* Ready->Running of the candidate in t_yield, Running->Ready of the current
\* unit in t_yield, or Running->Available of the current unit in t_return.
C8_LifecycleTransitions ==
    [][\A i \in Slots :
          threads'[i].state # threads[i].state =>
              \/ /\ threads[i].state = "Available" /\ threads'[i].state = "Ready"
                 /\ SpawnCall
              \/ /\ threads[i].state = "Ready" /\ threads'[i].state = "Running"
                 /\ pc = "ty_run" /\ i = pos
              \/ /\ threads[i].state = "Running" /\ threads'[i].state = "Ready"
                 /\ pc = "ty_mark" /\ i = current
              \/ /\ threads[i].state = "Running" /\ threads'[i].state = "Available"
                 /\ pc = "t_return" /\ i = current]_vars

\* a unit has retired and its slot has been spawned into again
C8_Witness ==
    /\ Len(done) >= 1
    /\ calls.spawn >= 2
    /\ threads[1].state = "Running"
    /\ entry[1].id = 2
    /\ pc = "f_loop"

\* ---- the scenario of fn main() ----
IsCounter(e) == e[1] = "counter"
CounterLines == SelectSeq(out, IsCounter)

\* thread 1 counter i, thread 2 counter i, ... while closure 1 is live, then
\* the remaining counters of thread 2
ExpectedCounters ==
    [k \in 1 .. (Closure1Iters + Closure2Iters) |->
        IF k <= 2 * Closure1Iters
        THEN <<"counter", IF k % 2 = 1 THEN 1 ELSE 2, (k - 1) \div 2>>
        ELSE <<"counter", 2, k - Closure1Iters - 1>>]

IsPrefix(a, b) == Len(a) <= Len(b) /\ \A k \in 1 .. Len(a) : a[k] = b[k]

\* C9 (as stated): ... and at exit no slot is left Ready or Running.
C9_NoSlotRunningAtExit ==
    pc = "exit0" =>
        /\ CounterLines = ExpectedCounters
        /\ \A i \in Slots : threads[i].state \notin {"Ready", "Running"}

\* C9 (amended): in the scenario of main() the counter lines come out in
\* round-robin order (thread 1 counter i, thread 2 counter i, thread 1 counter
\* i+1, ...; after closure 1 has finished, thread 2's remaining counters), the
\* process reaches exit(0) after both closures have returned, and at exit no
\* slot other than slot 0 is Ready or Running (slot 0 is still Running).
C9_DemoRoundRobin ==
    /\ [](/\ IsPrefix(CounterLines, ExpectedCounters)
          /\ pc = "exit0" =>
                /\ CounterLines = ExpectedCounters
                /\ done = <<1, 2>>
                /\ \A i \in Slots \ {0} : threads[i].state = "Available"
                /\ threads[0].state = "Running")
    /\ <>(pc = "exit0")

\* main() has exited after all 25 counter lines
C9_Witness ==
    /\ pc = "exit0"
    /\ Len(CounterLines) = Closure1Iters + Closure2Iters
    /\ Len(out) = Closure1Iters + Closure2Iters + 4

\* the misuses of section 7: a second init, spawn or yield_thread before init
Misuse ==
    \/ InitCall /\ RUNTIME # 0
    \/ SpawnCall /\ RUNTIME = 0
    \/ pc = "yield_thread" /\ RUNTIME = 0

\* C10: a second init, or a spawn or yield_thread before init, fails fast with
\* an error and leaves the scheduler reference and the pool as they were.
C10_InvalidLifecycleFailsFast ==
    [][Misuse =>
          /\ pc' \in {"panic", "segv"}
          /\ RUNTIME' = RUNTIME
          /\ threads' = threads
          /\ current' = current]_vars

\* ---- Runtime::new, statement by statement, for a build with MAX_THREADS =
\* n_threads ----
BaseThread == [id |-> 0, state |-> "Running"]

\* threads.append(&mut other): other's elements after those of th
Appended(th, other) ==
    LET k == Cardinality(DOMAIN th)
    IN  [i \in 0 .. (k + Len(other) - 1) |-> IF i < k THEN th[i] ELSE other[i - k + 1]]

\* before Runtime::new has run: no pool yet
InitNew ==
    /\ n_threads \in 1 .. MaxPoolSize
    /\ threads = << >>
    /\ available_threads = << >>
    /\ current = NoPos
    /\ pc = "new"
    /\ RUNTIME = 0
    /\ ctx = [i \in Slots |-> NullCtx]
    /\ stack = [i \in Slots |-> << >>]
    /\ rsp = [stk |-> 0, top |-> 0]
    /\ pos = 0
    /\ old_pos = 0
    /\ ret = FALSE
    /\ entry = [i \in Slots |-> NoEntry]
    /\ counter = [i \in Slots |-> 0]
    /\ out = << >>
    /\ calls = [init |-> 0, spawn |-> 0, yield_thread |-> 0, run |-> 0]
    /\ begun = << >>
    /\ done = << >>
    /\ cpu = BootCpu
    /\ saved = [i \in Slots |-> DefaultRegs]
    /\ waited = [i \in Slots |-> 0]

\* let base_thread = Thread {..}; let mut threads = vec![base_thread]
new_base ==
    /\ pc = "new"
    /\ threads' = [i \in {0} |-> BaseThread]
    /\ pc' = "new_map"
    /\ UNCHANGED <<current, RUNTIME, ctx, stack, rsp, pos, old_pos, ret, entry,
                   counter, out, calls, begun, done, newVars, regVars, waited>>

\* (1..MAX_THREADS).map(|i| Thread::new(i)).collect(): one element per step
new_map ==
    /\ pc = "new_map"
    /\ LET i == Len(available_threads) + 1
       IN  IF i < n_threads
           THEN /\ available_threads' = Append(available_threads, ThreadNew(i))
                /\ UNCHANGED pc
           ELSE /\ pc' = "new_append"
                /\ UNCHANGED available_threads
    /\ UNCHANGED <<threads, current, RUNTIME, ctx, stack, rsp, pos, old_pos, ret,
                   entry, counter, out, calls, begun, done, n_threads, regVars,
                   waited>>

\* threads.append(&mut available_threads)
new_append ==
    /\ pc = "new_append"
    /\ threads' = Appended(threads, available_threads)
    /\ available_threads' = << >>
    /\ pc' = "new_runtime"
    /\ UNCHANGED <<current, RUNTIME, ctx, stack, rsp, pos, old_pos, ret, entry,
                   counter, out, calls, begun, done, n_threads, regVars, waited>>

\* Runtime { threads, current: 0 }
new_runtime ==
    /\ pc = "new_runtime"
    /\ current' = 0
    /\ pc' = "main"
    /\ UNCHANGED <<threads, RUNTIME, ctx, stack, rsp, pos, old_pos, ret, entry,
                   counter, out, calls, begun, done, newVars, regVars, waited>>

NextNew ==
    \/ new_base
    \/ new_map
    \/ new_append
    \/ new_runtime

SpecNew == InitNew /\ [][NextNew]_vars

\* C11: for every pool size n >= 1 the constructed pool has the slots
\* 0 .. n-1, slot 0 Running, every other slot Available, current = 0 and each
\* unit's id equal to its index; for n = MAX_THREADS it is the pool the
\* scheduler starts from.
C11_ConstructedPool ==
    pc = "main" =>
        /\ DOMAIN threads = 0 .. (n_threads - 1)
        /\ threads[0].state = "Running"
        /\ \A i \in 1 .. (n_threads - 1) : threads[i].state = "Available"
        /\ \A i \in DOMAIN threads : threads[i].id = i
        /\ current = 0
        /\ available_threads = << >>
        /\ n_threads = MAX_THREADS => threads = RuntimeNewThreads

\* a pool of more than MAX_THREADS units has been constructed
C11_Witness ==
    /\ pc = "main"
    /\ n_threads > MAX_THREADS
    /\ Cardinality(DOMAIN threads) = n_threads
    /\ threads[n_threads - 1].state = "Available"

\* the return address t_yield was called with: that of t_return when the
\* unit is retiring
Retiring == TopOfStack = "t_return_ret"

\* C13: when t_yield has found a candidate and is about to call switch, the
\* old current unit is Ready (Available if it is retiring), the candidate is
\* Running and is current, and control is still on the old unit's stack; the
\* steps from the scan to the switch change no other unit and no context.
C13_YieldEffectBeforeSwitch ==
    /\ [](pc = "switch" =>
            /\ current = pos
            /\ pos # old_pos
            /\ threads[pos].state = "Running"
            /\ threads[old_pos].state = (IF Retiring THEN "Available" ELSE "Ready")
            /\ rsp.stk = old_pos)
    /\ [][(pc \in {"ty_mark", "ty_run", "ty_cur"}) =>
            ( /\ \A i \in Slots \ {current, pos} : threads'[i] = threads[i]
              /\ \A i \in Slots : threads'[i].id = threads[i].id
              /\ ctx' = ctx
              /\ saved' = saved
              /\ cpu' = cpu
              /\ rsp' = rsp )]_vars

\* a retiring unit is about to switch to another spawned unit
C13_Witness ==
    /\ pc = "switch"
    /\ Retiring
    /\ threads[old_pos].state = "Available"
    /\ pos # 0
    /\ threads[0].state = "Ready"

\* C14: control never comes back to t_return or guard: the t_yield called by
\* t_return always has a Ready candidate, t_yield never resumes in a frame
\* called by t_return, and a unit whose stack still holds the frames of its
\* retirement stays Available while it is not running.
C14_TrampolineNeverReturns ==
    /\ pc \notin {"t_return_ret", "guard_ret"}
    /\ (pc = "t_yield" /\ Retiring) => ReadySet # {}
    /\ pc = "ty_true" => ~Retiring
    /\ \A i \in Slots :
          ((\E k \in 1 .. Len(stack[i]) : stack[i][k] = "t_return_ret") /\ rsp.stk # i)
              => threads[i].state = "Available"

\* slot 1 has retired and keeps its frames while slot 2 runs
C14_Witness ==
    /\ \E k \in 1 .. Len(stack[1]) : stack[1][k] = "t_return_ret"
    /\ threads[1].state = "Available"
    /\ pc = "f_loop"
    /\ rsp.stk = 2

\* C15: a successful spawn(f) takes the lowest Available slot a, makes it Ready,
\* plants f so that a return into the primed stack starts f and the return
\* after that one enters guard, and changes no other slot, context or stack
\* and not current; and an entry function that returns enters guard.
C15_SpawnPrimesLowestSlot ==
    /\ [][(SpawnCall /\ AvailableSet # {}) =>
            \E a \in AvailableSet : (
                /\ \A j \in AvailableSet : a <= j
                /\ threads'[a] = [id |-> a, state |-> "Ready"]
                /\ \A i \in Slots \ {a} :
                      threads'[i] = threads[i] /\ ctx'[i] = ctx[i] /\ stack'[i] = stack[i]
                /\ current' = current
                /\ ctx'[a].stk = a
                /\ RetTarget(stack', ctx'[a]) = "f_start"
                /\ RetTarget(RetStack(stack', ctx'[a]), RetRsp(ctx'[a])) = "guard"
                /\ entry'[a].id = calls'.spawn )]_vars
    /\ [][done' # done => pc' = "guard"]_vars

\* slot 1 was taken again although slot 3 is Available too and slot 2 is in use
C15_Witness ==
    /\ pc = "main"
    /\ threads[1].state = "Ready"
    /\ entry[1].id = 3
    /\ threads[2].state = "Ready"
    /\ threads[3].state = "Available"

\* C16: switch(save_into, load_from) leaves in save_into the caller's value of
\* every field (rsp, r15, r14, r13, r12, rbx, rbp and the thread-information-
\* block pair), and leaves every one of those CPU-side values, the thread-
\* information-block pair included, equal to the value stored in load_from.
C16_SwitchSameFieldsBothWays ==
    [][(pc = "switch") =>
          ( /\ ctx'[old_pos] = RspPushed
            /\ saved'[old_pos] = [r15 |-> cpu.r15, r14 |-> cpu.r14, r13 |-> cpu.r13,
                                  r12 |-> cpu.r12, rbx |-> cpu.rbx, rbp |-> cpu.rbp,
                                  tib_lo |-> cpu.gs08, tib_hi |-> cpu.gs16]
            /\ rsp' = RetRsp(ctx[pos])
            /\ cpu'.r15 = saved[pos].r15
            /\ cpu'.r14 = saved[pos].r14
            /\ cpu'.r13 = saved[pos].r13
            /\ cpu'.r12 = saved[pos].r12
            /\ cpu'.rbx = saved[pos].rbx
            /\ cpu'.rbp = saved[pos].rbp
            /\ cpu'.gs08 = saved[pos].tib_lo
            /\ cpu'.gs16 = saved[pos].tib_hi )]_vars

\* the entry function planted in slot i has returned: the lifetime is over
Finished(i) == Count(done, entry[i].id) >= 1

\* C17: a slot whose unit has retired is Available once control has left it;
\* a later spawn that finds it the lowest Available slot takes it again and
\* leaves on its stack nothing of the previous lifetime; the first switch into
\* a slot whose entry function has not begun starts that function at its
\* beginning, on that slot, with its loop counter at 0.
C17_SlotRecycled ==
    /\ [](\A i \in Slots \ {0} :
             (Finished(i) /\ rsp.stk # i) => threads[i].state = "Available")
    /\ [][\A a \in Slots :
            (SpawnCall /\ Finished(a) /\ a \in AvailableSet
                       /\ (\A j \in AvailableSet : a <= j)) =>
                ( /\ threads'[a].state = "Ready"
                  /\ Count(done, entry'[a].id) = 0
                  /\ Count(begun, entry'[a].id) = 0
                  /\ ctx'[a] # ctx[a]
                  /\ stack'[a] # stack[a]
                  /\ \A k \in 1 .. Len(stack'[a]) : stack'[a][k] \in {"guard", "f_start"} )]_vars
    /\ [][(pc = "switch" /\ pos # 0 /\ Count(begun, entry[pos].id) = 0) =>
            (pc' = "f_start" /\ rsp'.stk = pos)]_vars
    /\ [][(pc = "f_start") =>
            ( /\ pc' = "f_loop"
              /\ counter'[rsp.stk] = 0
              /\ begun' = Append(begun, entry[rsp.stk].id)
              /\ rsp' = rsp )]_vars

\* a later entry function planted in slot 1, whose first one has returned,
\* is about to start there
C17_Witness ==
    /\ pc = "f_start"
    /\ rsp.stk = 1
    /\ Count(done, 1) = 1
    /\ entry[1].id >= 2
    /\ Count(begun, entry[1].id) = 0

\* C18: whenever a spawned unit is current and Running (it holds the
\* execution stream), slot 0 is Ready; every t_yield entered on the stack of a
\* spawned unit, from yield_thread or from t_return, finds a candidate; and a
\* t_yield that goes back to its caller without a switch returns false on
\* slot 0 with current = 0.
C18_BootstrapReadyForSpawned ==
    /\ []((current # 0 /\ threads[current].state = "Running")
             => threads[0].state = "Ready")
    /\ []((pc = "t_yield" /\ rsp.stk # 0) =>
             (current = rsp.stk /\ t_yield_find(threads, current) # NoPos))
    /\ [][(pc = "t_yield" /\ pc' # "ty_mark") =>
            (ret' = FALSE /\ current = 0 /\ rsp.stk = 0 /\ pc' = TopOfStack)]_vars

\* a spawned unit retires while slot 0 is the only Ready unit
C18_Witness ==
    /\ pc = "t_yield"
    /\ Retiring
    /\ rsp.stk # 0
    /\ ReadySet = {0}

\* C19: at every entry to t_yield the current unit is Running or Available,
\* never Ready; the candidate the scan finds differs from current, and switch
\* is called with two different units.
C19_SwitchNeverAliased ==
    /\ pc = "t_yield" => threads[current].state \in {"Running", "Available"}
    /\ pc = "t_yield" => t_yield_find(threads, current) # current
    /\ pc \in {"ty_mark", "ty_run"} => (pos # current /\ pos # NoPos)
    /\ pc = "switch" => (pos # old_pos /\ pos \in Slots /\ old_pos \in Slots)

\* a spawned unit is about to switch to another spawned unit
C19_Witness ==
    /\ pc = "switch"
    /\ pos # 0
    /\ old_pos # 0
    /\ ~Retiring

\* C20: a unit that is Ready has seen at most capacity-1 successful switches
\* since it became Ready (by spawn or by yielding), the switch that selects it
\* included, whatever spawns and retirements happen in between.
C20_BoundedWaiting ==
    \A i \in Slots : threads[i].state = "Ready" => waited[i] <= MAX_THREADS - 1

\* slot 0 is selected after the three spawned units have each had a turn
C20_Witness ==
    /\ pc = "ty_run"
    /\ pos = 0
    /\ waited[0] = MAX_THREADS - 1
====
